---------------------------- MODULE Spec2Model ----------------------------
(***************************************************************************)
(* Model of the DoctorDiscovery component                                  *)
(* (src/Desktop/bajaj/src/components/DoctorDiscovery.tsx).                 *)
(*                                                                         *)
(* JavaScript strings are sequences of one-character TLA+ strings, so that *)
(* toLowerCase, includes, split, join and parseInt are computed character  *)
(* by character.  A URLSearchParams object is the sequence of its          *)
(* [key, value] entries; the browser history is the sequence of the query  *)
(* strings of its entries together with the index of the current one.      *)
(*                                                                         *)
(* The component is followed render by render.  A handler sets state, the  *)
(* component renders (memos whose dependencies changed run again), and the *)
(* passive effects of that render are flushed before the next event is     *)
(* handled; `effects` says which effects are waiting.                      *)
(*                                                                         *)
(* Environment:                                                            *)
(*  - doctorsData is any of a few candidate data files (Stores);           *)
(*  - the page is opened with any of a few query strings (InitialURLs);    *)
(*  - the try body of the load effect either completes or throws;          *)
(*  - setSearchParams either keeps its identity for the life of the        *)
(*    component or is rebuilt when the query string changes, as the router *)
(*    in use decides (stableSetter); in the second case the persist effect,*)
(*    which lists it as a dependency, runs once more after the query       *)
(*    string has changed;                                                  *)
(*  - the user types, picks suggestions, clicks radios and chips, selects  *)
(*    a sort order and uses the browser's back and forward buttons.        *)
(***************************************************************************)
EXTENDS Integers, Sequences, FiniteSets

VARIABLES
    doctorsData,          \* the bundled doctors.json (import, line 44)
    stableSetter,         \* whether the router's setSearchParams keeps its identity
    history,              \* the session history: query string of every entry
    histIdx,              \* the current history entry
    doctors,              \* useState<Doctor[]>([])            (line 84)
    loading,              \* useState(true)                    (line 85)
    error,                \* useState<string | null>(null)     (line 86)
    nameFilter,           \* useState(... 'name' ...)          (line 90)
    consultationType,     \* useState(... 'consultationType')  (line 91)
    selectedSpecialties,  \* useState(... 'specialties' ...)   (line 94)
    sortBy,               \* useState(... 'sortBy' ...)        (line 97)
    filteredDoctors,      \* value held by the useMemo of line 132
    suggestions,          \* value held by the useMemo of line 167
    screen,               \* what the last render returned (lines 185-202)
    effects,              \* passive effects waiting to be flushed
    computedIn,           \* store states in which a memo body has executed
    toggleLog,            \* the latest consecutive clicks on one specialty chip
    changes,              \* number of filter changes the user has made
    navigations           \* number of back/forward navigations the user has made

vars == <<doctorsData, stableSetter, history, histIdx, doctors, loading, error,
          nameFilter, consultationType, selectedSpecialties, sortBy,
          filteredDoctors, suggestions, screen, effects, computedIn, toggleLog,
          changes, navigations>>

-----------------------------------------------------------------------------
\* Bounds of the model.

\* Most filter changes the user makes in one session.
MaxChanges == 2

\* Most back/forward navigations the user makes in one session.
MaxNavigations == 1

-----------------------------------------------------------------------------
\* Strings.

Null == "null"

video == <<"v", "i", "d", "e", "o">>
clinic == <<"c", "l", "i", "n", "i", "c">>
fees == <<"f", "e", "e", "s">>
experience == <<"e", "x", "p", "e", "r", "i", "e", "n", "c", "e">>

UpperCase == <<"A", "B", "C", "D", "E", "F", "G", "H", "I", "J", "K", "L", "M",
               "N", "O", "P", "Q", "R", "S", "T", "U", "V", "W", "X", "Y", "Z">>
LowerCase == <<"a", "b", "c", "d", "e", "f", "g", "h", "i", "j", "k", "l", "m",
               "n", "o", "p", "q", "r", "s", "t", "u", "v", "w", "x", "y", "z">>

LowerChar(c) ==
    IF \E i \in DOMAIN UpperCase : UpperCase[i] = c
    THEN LowerCase[CHOOSE i \in DOMAIN UpperCase : UpperCase[i] = c]
    ELSE c

\* String.prototype.toLowerCase
toLowerCase(s) == [i \in 1..Len(s) |-> LowerChar(s[i])]

\* String.prototype.includes
includes(s, sub) ==
    \E i \in 0..(Len(s) - Len(sub)) : SubSeq(s, i + 1, i + Len(sub)) = sub

\* Array.prototype.includes
arrayIncludes(arr, x) == \E i \in DOMAIN arr : arr[i] = x

\* String.prototype.split(','): the pieces between the commas; the empty
\* string gives one empty piece.
RECURSIVE split(_)
split(s) ==
    IF \A i \in DOMAIN s : s[i] # ","
    THEN <<s>>
    ELSE LET c == CHOOSE i \in DOMAIN s :
                    s[i] = "," /\ \A j \in 1..(i - 1) : s[j] # ","
         IN <<SubSeq(s, 1, c - 1)>> \o split(SubSeq(s, c + 1, Len(s)))

\* Array.prototype.join(',')
RECURSIVE join(_)
join(arr) ==
    IF Len(arr) = 0 THEN <<>>
    ELSE IF Len(arr) = 1 THEN arr[1]
    ELSE arr[1] \o <<",">> \o join(Tail(arr))

Digits == <<"0", "1", "2", "3", "4", "5", "6", "7", "8", "9">>
IsDigit(c) == \E i \in DOMAIN Digits : Digits[i] = c
DigitValue(c) == (CHOOSE i \in DOMAIN Digits : Digits[i] = c) - 1

RECURSIVE DigitsValue(_, _)
DigitsValue(s, k) ==
    IF k = 0 THEN 0 ELSE DigitsValue(s, k - 1) * 10 + DigitValue(s[k])

\* parseInt on an unsigned string: the value of the longest prefix of
\* decimal digits, NaN when that prefix is empty.
parseInt(s) ==
    LET n == CHOOSE k \in 0..Len(s) :
                 /\ \A j \in 1..k : IsDigit(s[j])
                 /\ k < Len(s) => ~IsDigit(s[k + 1])
    IN IF n = 0 THEN [nan |-> TRUE, val |-> 0]
       ELSE [nan |-> FALSE, val |-> DigitsValue(s, n)]

\* a - b on numbers; a NaN operand gives NaN, which Array.prototype.sort
\* reads as +0.
Minus(a, b) == IF a.nan \/ b.nan THEN 0 ELSE a.val - b.val

-----------------------------------------------------------------------------
\* Records (interface Doctor, lines 50-72; the fields the logic reads).

Specialty(n) == [name |-> n]

Doctor(id, name, specs, f, e, v, c) ==
    [id |-> id, name |-> name, photo |-> id,
     specialities |-> [i \in 1..Len(specs) |-> Specialty(specs[i])],
     fees |-> f, experience |-> e, video_consult |-> v, in_clinic |-> c]

\* Candidate contents of doctors.json.  Ids are unique; fees and experience
\* are strings that start with a decimal number.

\* The fee and experience values of the specification's sorting example.
StoreThree ==
    << Doctor("d1", <<"A", "n", "n">>, << <<"x">> >>,
              <<"5", "0", "0">>, <<"5">>, TRUE, FALSE),
       Doctor("d2", <<"b", "o", "b">>, << <<"y">>, <<"x">> >>,
              <<"2", "0", "0">>, <<"2", "0">>, FALSE, TRUE),
       Doctor("d3", <<"A", "N", "A">>, << <<"y">> >>,
              <<"8", "0", "0">>, <<"1">>, TRUE, TRUE) >>

\* More than five records match the query "a"; equal names and equal fees;
\* a fee with a trailing unit; a record with no specialty and no
\* consultation mode.
StoreSeven ==
    << Doctor("e1", <<"D", "a">>, << <<"x">> >>, <<"1", "0">>, <<"3">>, TRUE, TRUE),
       Doctor("e2", <<"d", "A">>, << <<"x">> >>, <<"1", "0">>, <<"1", "2">>, TRUE, FALSE),
       Doctor("e3", <<"x", "y">>, << <<"a">> >>, <<"5">>, <<"7">>, FALSE, TRUE),
       Doctor("e4", <<"D", "a">>, << <<"x">> >>, <<"3", "0">>, <<"7">>, FALSE, FALSE),
       Doctor("e5", <<"q">>, << >>, <<"5">>, <<"2">>, FALSE, FALSE),
       Doctor("e6", <<"d", "A">>, << <<"a">>, <<"x">> >>, <<"7">>, <<"3", "0">>, TRUE, TRUE),
       Doctor("e7", <<"D", "a">>, << <<"x">> >>, <<"1", "2", "r", "s">>, <<"9">>, TRUE, TRUE) >>

\* Specialty names that hold a comma or are empty; "9" against "10".
StoreOdd ==
    << Doctor("f1", <<"a">>, << <<"a", ",", "b">> >>, <<"1", "0">>, <<"9">>, TRUE, FALSE),
       Doctor("f2", <<"B">>, << <<>>, <<"a">> >>, <<"9">>, <<"1", "0">>, FALSE, TRUE) >>

Stores == {<<>>, StoreThree, StoreSeven, StoreOdd}

-----------------------------------------------------------------------------
\* URLSearchParams.

Param(k, v) == [key |-> k, value |-> v]

\* URLSearchParams.prototype.has
has(params, k) == \E i \in DOMAIN params : params[i].key = k

\* URLSearchParams.prototype.get, where has(params, k): the first value.
get(params, k) ==
    params[CHOOSE i \in DOMAIN params :
               params[i].key = k /\ \A j \in 1..(i - 1) : params[j].key # k].value

\* searchParams.get(k) || '': null and the empty string both give ''.
getOrEmpty(params, k) == IF has(params, k) THEN get(params, k) ELSE <<>>

\* Query strings the page may be opened with.
InitialURLs ==
    { <<>>,
      <<Param("name", <<"a">>), Param("utm", <<"1">>)>>,
      <<Param("consultationType", <<"f", "o", "o">>), Param("sortBy", <<"u", "p">>)>>,
      <<Param("specialties", <<"x", ",", "z", "z", ",", "x">>),
        Param("sortBy", fees)>>,
      <<Param("name", <<"A", "N">>), Param("consultationType", video),
        Param("sortBy", experience)>>,
      <<Param("specialties", <<>>), Param("consultationType", clinic)>> }

\* The query string of the current location (useSearchParams, line 83).
searchParams == history[histIdx]

\* Lines 90-99: the useState initialisers.
HydrateName(params) == getOrEmpty(params, "name")
HydrateConsultationType(params) == getOrEmpty(params, "consultationType")
HydrateSpecialties(params) ==
    IF has(params, "specialties") THEN split(get(params, "specialties")) ELSE <<>>
HydrateSortBy(params) == getOrEmpty(params, "sortBy")

\* Mutant of PersistParams: the name parameter is written without the
\* `if (nameFilter)` test of line 115.
PersistParamsAlwaysName(nf, ct, sel, sb) ==
    <<Param("name", nf)>>
    \o (IF ct # <<>> THEN <<Param("consultationType", ct)>> ELSE <<>>)
    \o (IF Len(sel) # 0 THEN <<Param("specialties", join(sel))>> ELSE <<>>)
    \o (IF sb # <<>> THEN <<Param("sortBy", sb)>> ELSE <<>>)

\* Lines 114-118: the URLSearchParams the persist effect builds.
PersistParams(nf, ct, sel, sb) ==
    (IF nf # <<>> THEN <<Param("name", nf)>> ELSE <<>>)
    \o (IF ct # <<>> THEN <<Param("consultationType", ct)>> ELSE <<>>)
    \o (IF Len(sel) # 0 THEN <<Param("specialties", join(sel))>> ELSE <<>>)
    \o (IF sb # <<>> THEN <<Param("sortBy", sb)>> ELSE <<>>)

-----------------------------------------------------------------------------
\* The derived views (useMemo bodies).

\* Lines 123-129: the specialty names of the store, each once, in order of
\* first occurrence (insertion order of the Set).
RECURSIVE addAll(_, _)
addAll(unique, names) ==
    IF names = <<>> THEN unique
    ELSE addAll(IF arrayIncludes(unique, Head(names)) THEN unique
                ELSE Append(unique, Head(names)),
                Tail(names))

RECURSIVE specialtiesOf(_, _)
specialtiesOf(ds, unique) ==
    IF ds = <<>> THEN unique
    ELSE specialtiesOf(Tail(ds),
             addAll(unique, [i \in 1..Len(Head(ds).specialities) |->
                                 Head(ds).specialities[i].name]))

specialties == specialtiesOf(doctors, <<>>)

\* Lines 136-140: the name filter.
ApplyNameFilter(result, nf) ==
    IF nf # <<>>
    THEN SelectSeq(result, LAMBDA doctor :
             includes(toLowerCase(doctor.name), toLowerCase(nf)))
    ELSE result

\* Mutant of ApplyConsultationFilter: the two flags are swapped.
ConsultationFilterSwapped(result, ct) ==
    IF ct = video THEN SelectSeq(result, LAMBDA doctor : doctor.in_clinic)
    ELSE IF ct = clinic THEN SelectSeq(result, LAMBDA doctor : doctor.video_consult)
    ELSE result

\* Lines 143-147: the consultation type filter.
ApplyConsultationFilter(result, ct) ==
    IF ct = video THEN SelectSeq(result, LAMBDA doctor : doctor.video_consult)
    ELSE IF ct = clinic THEN SelectSeq(result, LAMBDA doctor : doctor.in_clinic)
    ELSE result

\* Lines 150-154: the specialties filter.
ApplySpecialtiesFilter(result, sel) ==
    IF Len(sel) > 0
    THEN SelectSeq(result, LAMBDA doctor :
             \E i \in DOMAIN doctor.specialities :
                 arrayIncludes(sel, doctor.specialities[i].name))
    ELSE result

\* Mutant of CompareExperience: the operands in the order of line 158.
CompareExperienceAscending(a, b) ==
    Minus(parseInt(a.experience), parseInt(b.experience))

\* Lines 158 and 160: the comparators.
CompareFees(a, b) ==
    Minus(parseInt(a.fees), parseInt(b.fees))
CompareExperience(a, b) ==
    Minus(parseInt(b.experience), parseInt(a.experience))

Compare(a, b, sb) ==
    IF sb = fees THEN CompareFees(a, b) ELSE CompareExperience(a, b)

\* Array.prototype.sort: a stable sort (ECMAScript 2019), here by insertion.
InsertSorted(sorted, x, sb) ==
    LET k == Cardinality({i \in DOMAIN sorted : Compare(sorted[i], x, sb) <= 0})
    IN SubSeq(sorted, 1, k) \o <<x>> \o SubSeq(sorted, k + 1, Len(sorted))

RECURSIVE sort(_, _)
sort(arr, sb) ==
    IF arr = <<>> THEN <<>>
    ELSE InsertSorted(sort(SubSeq(arr, 1, Len(arr) - 1), sb), arr[Len(arr)], sb)

\* Lines 157-161: sorting.
ApplySorting(result, sb) ==
    IF sb = fees \/ sb = experience THEN sort(result, sb) ELSE result

\* Lines 132-164: the filteredDoctors memo.
FilteredDoctors(ds, nf, ct, sel, sb) ==
    ApplySorting(
        ApplySpecialtiesFilter(
            ApplyConsultationFilter(ApplyNameFilter(ds, nf), ct), sel), sb)

\* Mutant of DoctorsAfterMemo: `let result = doctors`, so that when no filter
\* has replaced the array the in-place sort reorders the doctors state.
DoctorsSortedInPlace(ds, nf, ct, sel, sb) ==
    IF nf = <<>> /\ ct # video /\ ct # clinic /\ Len(sel) = 0
    THEN ApplySorting(ds, sb) ELSE ds

\* Line 133: the memo works on a copy, [...doctors], so the in-place sort of
\* lines 158/160 leaves the array held in the doctors state as it was.
DoctorsAfterMemo(ds, nf, ct, sel, sb) == ds

\* Line 182: the cap on the suggestion list.
SuggestionLimit == 5

\* Lines 176-181: what a suggestion keeps of a record.
Suggestion(doctor) ==
    [id |-> doctor.id, name |-> doctor.name,
     specialities |-> doctor.specialities, photo |-> doctor.photo]

\* Lines 170-175: the suggestion predicate.
SuggestionMatch(doctor, nf) ==
    \/ includes(toLowerCase(doctor.name), toLowerCase(nf))
    \/ \E i \in DOMAIN doctor.specialities :
           includes(toLowerCase(doctor.specialities[i].name), toLowerCase(nf))

\* Mutant of Suggestions: slice(0, 5) is applied before the filter.
SuggestionsSliceFirst(ds, nf) ==
    IF nf = <<>> THEN <<>>
    ELSE LET sliced == SubSeq(ds, 1, IF Len(ds) < SuggestionLimit
                                     THEN Len(ds) ELSE SuggestionLimit)
             matched == SelectSeq(sliced, LAMBDA doctor : SuggestionMatch(doctor, nf))
         IN [i \in 1..Len(matched) |-> Suggestion(matched[i])]

\* Lines 167-183: the suggestions memo.
Suggestions(ds, nf) ==
    IF nf = <<>> THEN <<>>
    ELSE LET matched == SelectSeq(ds, LAMBDA doctor : SuggestionMatch(doctor, nf))
             mapped == [i \in 1..Len(matched) |-> Suggestion(matched[i])]
         IN SubSeq(mapped, 1, IF Len(mapped) < SuggestionLimit
                              THEN Len(mapped) ELSE SuggestionLimit)

\* Mutant of Screen: the `if (loading)` return of line 185 is missing.
ScreenIgnoresLoading(l, e) ==
    IF e # Null THEN "error" ELSE "list"

\* Lines 185-202: what the component returns.
Screen(l, e) ==
    IF l THEN "spinner" ELSE IF e # Null THEN "error" ELSE "list"

\* The state of the Record Store.
StoreState(l, e) ==
    IF l THEN "loading" ELSE IF e # Null THEN "failed" ELSE "ready"

-----------------------------------------------------------------------------
\* Rendering and navigation.

\* One render of the component with the given state: the memos whose
\* dependencies changed run again (lines 164 and 183), the others keep their
\* value, and the early returns of lines 185-200 choose the screen.
Render(ds, l, e, nf, ct, sel, sb, runFiltered, runSuggestions) ==
    /\ doctors' = (IF runFiltered THEN DoctorsAfterMemo(ds, nf, ct, sel, sb) ELSE ds)
    /\ loading' = l
    /\ error' = e
    /\ nameFilter' = nf
    /\ consultationType' = ct
    /\ selectedSpecialties' = sel
    /\ sortBy' = sb
    /\ filteredDoctors' = (IF runFiltered THEN FilteredDoctors(ds, nf, ct, sel, sb)
                           ELSE filteredDoctors)
    /\ suggestions' = (IF runSuggestions THEN Suggestions(ds, nf) ELSE suggestions)
    /\ screen' = Screen(l, e)
    /\ computedIn' = (IF runFiltered \/ runSuggestions
                      THEN computedIn \cup {StoreState(l, e)} ELSE computedIn)

\* Line 119: setSearchParams(params) with no navigate options is
\* navigate('?' + params), a PUSH: the entries after the current one are
\* dropped and a new entry with exactly this query string becomes current.
SetSearchParams(params) ==
    /\ history' = Append(SubSeq(history, 1, histIdx), params)
    /\ histIdx' = histIdx + 1

\* Line 120: setSearchParams is a dependency of the persist effect.  Where
\* the router rebuilds that callback whenever the query string changes, a
\* changed query string schedules the effect once more.
EffectsAfter(oldParams, newParams) ==
    IF ~stableSetter /\ newParams # oldParams THEN "persist" ELSE "none"

\* A user event is handled when no effect is waiting and the list is shown.
CanInteract ==
    /\ effects = "none"
    /\ screen = "list"
    /\ changes < MaxChanges

-----------------------------------------------------------------------------
\* Initial state: the first render, with the state hydrated from the URL
\* (lines 83-99), the memos computed over the empty doctors array and the
\* mount effects waiting.

Init ==
    /\ doctorsData \in Stores
    /\ stableSetter \in BOOLEAN
    /\ \E url \in InitialURLs :
        /\ history = <<url>>
        /\ nameFilter = HydrateName(url)
        /\ consultationType = HydrateConsultationType(url)
        /\ selectedSpecialties = HydrateSpecialties(url)
        /\ sortBy = HydrateSortBy(url)
    /\ histIdx = 1
    /\ doctors = <<>>
    /\ loading = TRUE
    /\ error = Null
    /\ filteredDoctors = FilteredDoctors(<<>>, nameFilter, consultationType,
                                         selectedSpecialties, sortBy)
    /\ suggestions = Suggestions(<<>>, nameFilter)
    /\ screen = Screen(TRUE, Null)
    /\ effects = "mount"
    /\ computedIn = {StoreState(TRUE, Null)}
    /\ toggleLog = <<>>
    /\ changes = 0
    /\ navigations = 0

-----------------------------------------------------------------------------
\* Actions.

\* Lines 102-110 and 113-120: the effects of the first commit, flushed
\* together: the load effect (its try body or its catch), then the persist
\* effect, then the render of the state they set.
MountEffects ==
    /\ effects = "mount"
    /\ \E threw \in BOOLEAN :
        LET params == PersistParams(nameFilter, consultationType,
                                    selectedSpecialties, sortBy)
        IN /\ SetSearchParams(params)
           /\ effects' = EffectsAfter(searchParams, params)
           /\ IF threw
              THEN Render(doctors, FALSE, "Failed to load doctors data",
                          nameFilter, consultationType, selectedSpecialties,
                          sortBy, FALSE, FALSE)
              ELSE Render(doctorsData, FALSE, error,
                          nameFilter, consultationType, selectedSpecialties,
                          sortBy, TRUE, TRUE)
    /\ UNCHANGED <<doctorsData, stableSetter, toggleLog, changes, navigations>>

\* Lines 113-120: the persist effect, run after a render in which one of its
\* dependencies changed.
PersistEffect ==
    /\ effects = "persist"
    /\ LET params == PersistParams(nameFilter, consultationType,
                                   selectedSpecialties, sortBy)
       IN /\ SetSearchParams(params)
          /\ effects' = EffectsAfter(searchParams, params)
    /\ Render(doctors, loading, error, nameFilter, consultationType,
              selectedSpecialties, sortBy, FALSE, FALSE)
    /\ UNCHANGED <<doctorsData, stableSetter, toggleLog, changes, navigations>>

\* Text the user may type into the search box.
NameInputs == {<<>>, <<"a">>, <<"A", "n">>}

\* Line 253 (and lines 245-251 for a typed or cleared value): onInputChange.
InputChange(v) ==
    /\ CanInteract
    /\ v # nameFilter
    /\ Render(doctors, loading, error, v, consultationType,
              selectedSpecialties, sortBy, TRUE, TRUE)
    /\ effects' = "persist"
    /\ changes' = changes + 1
    /\ toggleLog' = <<>>
    /\ UNCHANGED <<doctorsData, stableSetter, history, histIdx, navigations>>

\* Lines 247-248: onChange with one of the suggestions.
SelectSuggestion(i) ==
    /\ CanInteract
    /\ i \in DOMAIN suggestions
    /\ suggestions[i].name # nameFilter
    /\ Render(doctors, loading, error, suggestions[i].name, consultationType,
              selectedSpecialties, sortBy, TRUE, TRUE)
    /\ effects' = "persist"
    /\ changes' = changes + 1
    /\ toggleLog' = <<>>
    /\ UNCHANGED <<doctorsData, stableSetter, history, histIdx, navigations>>

\* Mutant of RadioOptions: the group has a third radio that clears the
\* selection.
RadioOptionsWithNone == {<<>>, video, clinic}

\* Lines 318-337: the values of the radios the group offers.
RadioOptions == {video, clinic}

\* Lines 312-338: the radio group.
SetConsultationType(v) ==
    /\ CanInteract
    /\ v \in RadioOptions
    /\ v # consultationType
    /\ Render(doctors, loading, error, nameFilter, v,
              selectedSpecialties, sortBy, TRUE, FALSE)
    /\ effects' = "persist"
    /\ changes' = changes + 1
    /\ toggleLog' = <<>>
    /\ UNCHANGED <<doctorsData, stableSetter, history, histIdx, navigations>>

\* Mutant of ToggleSelected: deselecting removes one occurrence (splice at
\* indexOf) instead of filtering out every occurrence.
ToggleRemovesFirst(sel, specialty) ==
    IF arrayIncludes(sel, specialty)
    THEN LET k == CHOOSE i \in DOMAIN sel :
                      sel[i] = specialty /\ \A j \in 1..(i - 1) : sel[j] # specialty
         IN SubSeq(sel, 1, k - 1) \o SubSeq(sel, k + 1, Len(sel))
    ELSE Append(sel, specialty)

\* Lines 349-355: the click handler of a specialty chip.
ToggleSelected(sel, specialty) ==
    IF arrayIncludes(sel, specialty)
    THEN SelectSeq(sel, LAMBDA s : s # specialty)
    ELSE Append(sel, specialty)

\* Every specialty name of the candidate stores; the chips rendered are those
\* of the loaded store (line 345).
ChipNames ==
    UNION {{specialtiesOf(st, <<>>)[i] : i \in DOMAIN specialtiesOf(st, <<>>)} :
           st \in Stores}

ToggleSpecialty(specialty) ==
    /\ CanInteract
    /\ arrayIncludes(specialties, specialty)
    /\ Render(doctors, loading, error, nameFilter, consultationType,
              ToggleSelected(selectedSpecialties, specialty), sortBy, TRUE, FALSE)
    /\ effects' = "persist"
    /\ changes' = changes + 1
    /\ LET click == [chip |-> specialty, before |-> filteredDoctors]
       IN toggleLog' =
            IF toggleLog # <<>> /\ toggleLog[Len(toggleLog)].chip = specialty
            THEN <<toggleLog[Len(toggleLog)], click>>
            ELSE <<click>>
    /\ UNCHANGED <<doctorsData, stableSetter, history, histIdx, navigations>>

\* Lines 366-377: the sort select.
SetSortBy(v) ==
    /\ CanInteract
    /\ v \in {<<>>, fees, experience}
    /\ v # sortBy
    /\ Render(doctors, loading, error, nameFilter, consultationType,
              selectedSpecialties, v, TRUE, FALSE)
    /\ effects' = "persist"
    /\ changes' = changes + 1
    /\ toggleLog' = <<>>
    /\ UNCHANGED <<doctorsData, stableSetter, history, histIdx, navigations>>

\* The browser's back and forward buttons: the location moves to another
\* entry, useSearchParams (line 83) returns its query string, and the
\* component renders again with its state as it was.
HistoryGo(delta) ==
    /\ effects = "none"
    /\ histIdx + delta \in DOMAIN history
    /\ navigations < MaxNavigations
    /\ navigations' = navigations + 1
    /\ histIdx' = histIdx + delta
    /\ effects' = EffectsAfter(searchParams, history[histIdx + delta])
    /\ Render(doctors, loading, error, nameFilter, consultationType,
              selectedSpecialties, sortBy, FALSE, FALSE)
    /\ UNCHANGED <<doctorsData, stableSetter, history, toggleLog, changes>>

Next ==
    \/ MountEffects
    \/ PersistEffect
    \/ \E v \in NameInputs : InputChange(v)
    \/ \E i \in 1..SuggestionLimit : SelectSuggestion(i)
    \/ \E v \in RadioOptions : SetConsultationType(v)
    \/ \E specialty \in ChipNames : ToggleSpecialty(specialty)
    \/ \E v \in {<<>>, fees, experience} : SetSortBy(v)
    \/ \E delta \in {-1, 1} : HistoryGo(delta)

Spec == Init /\ [][Next]_vars

-----------------------------------------------------------------------------
\* Properties.

\* text contains q, ignoring case: q occurs at some offset of text.
ContainsIgnoringCase(text, q) ==
    \E off \in 0..(Len(text) - Len(q)) :
        \A k \in 1..Len(q) : LowerChar(text[off + k]) = LowerChar(q[k])

\* The three filter predicates on a record, under the current FilterState.
PassesName(r) ==
    nameFilter = <<>> \/ ContainsIgnoringCase(r.name, nameFilter)
PassesConsultationType(r) ==
    /\ consultationType = video => r.video_consult
    /\ consultationType = clinic => r.in_clinic
PassesSpecialties(r) ==
    \/ selectedSpecialties = <<>>
    \/ \E i \in DOMAIN r.specialities, k \in DOMAIN selectedSpecialties :
           r.specialities[i].name = selectedSpecialties[k]
Passes(r) == PassesName(r) /\ PassesConsultationType(r) /\ PassesSpecialties(r)

\* C1: every record of the filtered view is a record of the store and
\* satisfies the name, consultation type and specialty predicates together
\* (each one vacuous when its filter is empty or unset); no record failing an
\* active predicate is in the view.
C1_ViewSatisfiesAllPredicates ==
    \A j \in DOMAIN filteredDoctors :
        /\ \E i \in DOMAIN doctors : doctors[i] = filteredDoctors[j]
        /\ Passes(filteredDoctors[j])

\* C1 witness: the list is shown with all three filters active, and they
\* keep some records and drop others.
C1_Witness ==
    /\ screen = "list"
    /\ nameFilter # <<>>
    /\ consultationType \in {video, clinic}
    /\ selectedSpecialties # <<>>
    /\ filteredDoctors # <<>>
    /\ Len(filteredDoctors) < Len(doctors)

SetOf(arr) == {arr[i] : i \in DOMAIN arr}

\* C2 (as claimed): persisting the FilterState and hydrating a fresh
\* FilterState from the resulting query string gives back the same
\* nameQuery, consultationType, set of selectedSpecialties and sortKey.
C2_RoundTrip ==
    LET params == PersistParams(nameFilter, consultationType,
                                selectedSpecialties, sortBy)
    IN /\ HydrateName(params) = nameFilter
       /\ HydrateConsultationType(params) = consultationType
       /\ SetOf(HydrateSpecialties(params)) = SetOf(selectedSpecialties)
       /\ HydrateSortBy(params) = sortBy

\* C3 (as claimed): consultationType is one of unset, video, clinic and
\* sortKey one of unset, fees, experience, whatever the query string was.
C3_HydratedInEnumeration ==
    /\ consultationType \in {<<>>, video, clinic}
    /\ sortBy \in {<<>>, fees, experience}

\* The query string holds exactly the non-default fields of the FilterState,
\* each once and with the current value, and no other parameter.
ExactlyNonDefault(params) ==
    /\ \A i \in DOMAIN params :
           params[i].key \in {"name", "consultationType", "specialties", "sortBy"}
    /\ \A i, j \in DOMAIN params : params[i].key = params[j].key => i = j
    /\ has(params, "name") <=> nameFilter # <<>>
    /\ has(params, "name") => get(params, "name") = nameFilter
    /\ has(params, "consultationType") <=> consultationType # <<>>
    /\ has(params, "consultationType") =>
           get(params, "consultationType") = consultationType
    /\ has(params, "specialties") <=> selectedSpecialties # <<>>
    /\ has(params, "specialties") =>
           get(params, "specialties") = join(selectedSpecialties)
    /\ has(params, "sortBy") <=> sortBy # <<>>
    /\ has(params, "sortBy") => get(params, "sortBy") = sortBy

\* C4: every persist step (the steps taken while an effect is waiting: the
\* one after mount and the one after each FilterState change) leaves a query
\* string that holds exactly the non-default fields of the FilterState, each
\* with its current value, and none of the parameters that were there before.
C4_PersistWritesExactlyNonDefault ==
    [][effects # "none" => ExactlyNonDefault(searchParams)']_vars

\* C4 witness: the page was opened with a foreign parameter, the user changed
\* a filter, and the persisted query string is current.
C4_Witness ==
    /\ effects = "none"
    /\ changes > 0
    /\ has(history[1], "utm")
    /\ histIdx = Len(history)
    /\ ~has(searchParams, "utm")
    /\ has(searchParams, "sortBy")
    /\ ~has(searchParams, "name")

\* C5 (as claimed): a persist step that follows a filter change replaces the
\* current history entry: the history keeps its length and its position.
C5_PersistReplacesEntry ==
    [][effects = "persist" /\ changes > 0 =>
           Len(history') = Len(history) /\ histIdx' = histIdx]_vars

\* Indices of the store records that match the query by name or specialty.
SuggestionMatches ==
    {i \in DOMAIN doctors :
        \/ ContainsIgnoringCase(doctors[i].name, nameFilter)
        \/ \E k \in DOMAIN doctors[i].specialities :
               ContainsIgnoringCase(doctors[i].specialities[k].name, nameFilter)}

\* C6: the suggestion list has at most 5 entries, is empty for the empty
\* query, and otherwise is the first (up to) 5 matching records in store
\* order; it is this function of the store and the query in every state,
\* whatever the other filters are.
C6_SuggestionsFirstFiveMatches ==
    LET matches == SuggestionMatches
        count == Cardinality(matches)
    IN /\ Len(suggestions) <= 5
       /\ nameFilter = <<>> => suggestions = <<>>
       /\ nameFilter # <<>> =>
           /\ Len(suggestions) = (IF count < 5 THEN count ELSE 5)
           /\ \A j \in DOMAIN suggestions :
                  \E i \in matches :
                      /\ Cardinality({m \in matches : m <= i}) = j
                      /\ suggestions[j].id = doctors[i].id
                      /\ suggestions[j].name = doctors[i].name
                      /\ suggestions[j].specialities = doctors[i].specialities

\* C6 witness: more than five records match, five are suggested, and other
\* filters are set.
C6_Witness ==
    /\ Cardinality(SuggestionMatches) > 5
    /\ Len(suggestions) = 5
    /\ nameFilter # <<>>
    /\ consultationType # <<>>
    /\ selectedSpecialties # <<>>

\* C7: after two consecutive clicks on the same specialty chip the filtered
\* view is what it was before the first of them.
C7_DoubleToggleRestoresView ==
    Len(toggleLog) = 2 => filteredDoctors = toggleLog[1].before

\* C7 witness: the state was hydrated from a specialties list with a
\* duplicate and a name that no record has, the duplicated chip was clicked
\* twice, and the specialty filter is narrowing the view.
C7_Witness ==
    /\ Len(toggleLog) = 2
    /\ has(history[1], "specialties")
    /\ get(history[1], "specialties") = <<"x", ",", "z", "z", ",", "x">>
    /\ toggleLog[1].chip = <<"x">>
    /\ filteredDoctors # <<>>
    /\ Len(filteredDoctors) < Len(doctors)

C9_StoreLoadedOnceThenFrozen ==
    [][/\ ~loading => /\ ~loading'
                      /\ doctors' = doctors
                      /\ error' = error
       /\ loading /\ ~loading' =>
              \/ error' = Null /\ doctors' = doctorsData
              \/ error' # Null /\ doctors' = <<>>]_vars

\* C9 witness: the store is ready and the user has sorted the view into an
\* order that differs from the store's.
C9_Witness ==
    /\ StoreState(loading, error) = "ready"
    /\ changes > 0
    /\ sortBy \in {fees, experience}
    /\ Len(filteredDoctors) = Len(doctors)
    /\ filteredDoctors # doctors

\* Position of a record in the store (ids are unique).
StoreIndex(r) == CHOOSE i \in DOMAIN doctors : doctors[i] = r

\* C10: the view is a permutation of the store records that pass the
\* filters; with sortBy unset it keeps store order, with fees the parsed
\* fees never decrease along it, with experience the parsed experience never
\* increases.  For stores whose fees and experience parse as integers.
C10_ViewOrderedBySortKey ==
    LET passing == {i \in DOMAIN doctors : Passes(doctors[i])}
        view == filteredDoctors
        fee == [j \in DOMAIN view |-> parseInt(view[j].fees).val]
        exp == [j \in DOMAIN view |-> parseInt(view[j].experience).val]
        pos == [j \in DOMAIN view |-> StoreIndex(view[j])]
    IN (\A i \in DOMAIN doctors :
            ~parseInt(doctors[i].fees).nan /\ ~parseInt(doctors[i].experience).nan)
       =>
       /\ Len(view) = Cardinality(passing)
       /\ \A i \in passing : \E j \in DOMAIN view : view[j] = doctors[i]
       /\ \A j \in DOMAIN view : \E i \in passing : doctors[i] = view[j]
       /\ \A j, k \in DOMAIN view :
              j < k =>
                /\ sortBy = <<>> => pos[j] < pos[k]
                /\ sortBy = fees => fee[j] <= fee[k]
                /\ sortBy = experience => exp[j] >= exp[k]

\* C10 witness: a view of at least three records sorted by fee into an order
\* that is not the store's, with a filter active.
C10_Witness ==
    /\ sortBy = fees
    /\ Len(filteredDoctors) >= 3
    /\ Len(filteredDoctors) < Len(doctors)
    /\ \E j, k \in DOMAIN filteredDoctors :
           j < k /\ StoreIndex(filteredDoctors[j]) > StoreIndex(filteredDoctors[k])

\* The FilterState that the useState initialisers of lines 90-99 read out of
\* a query string is equivalent to the FilterState in memory (the selected
\* specialties compared as sets).
HydratesToFilterState(params) ==
    /\ HydrateName(params) = nameFilter
    /\ HydrateConsultationType(params) = consultationType
    /\ SetOf(HydrateSpecialties(params)) = SetOf(selectedSpecialties)
    /\ HydrateSortBy(params) = sortBy

C12_ConsultationTypeIsOneWay ==
    [][(consultationType = video \/ consultationType = clinic) =>
           /\ consultationType' \in {video, clinic}
           /\ effects # "none" =>
                  /\ has(searchParams', "consultationType")
                  /\ get(searchParams', "consultationType") = consultationType'
      ]_vars

\* C12 witness: the page was opened with video and a sort key; the user
\* switched to clinic and put the sort key back to None; the persisted query
\* string has the consultationType parameter and no sortBy parameter.
C12_Witness ==
    /\ effects = "none"
    /\ histIdx = Len(history)
    /\ has(history[1], "consultationType")
    /\ get(history[1], "consultationType") = video
    /\ has(history[1], "sortBy")
    /\ consultationType = clinic
    /\ sortBy = <<>>
    /\ has(searchParams, "consultationType")
    /\ get(searchParams, "consultationType") = clinic
    /\ ~has(searchParams, "sortBy")

=============================================================================
